---- MODULE Spec2Model ----
(***************************************************************************)
(* libsrng: a deterministic 64-bit-state pseudorandom number generator.    *)
(*                                                                         *)
(* Numbers wider than 31 bits are kept as tuples of bytes, least           *)
(* significant byte first: a uint32_t is a 4-tuple, a uint64_t an 8-tuple. *)
(* Tuple index i (1-based) holds bits 8(i-1) .. 8(i-1)+7 of the value.     *)
(***************************************************************************)
EXTENDS Integers, Sequences, FiniteSets, TLC

(***************************************************************************)
(* Bit operations of C on unsigned values.                                 *)
(***************************************************************************)

Pow2(k) == 2 ^ k

\* a ^ b on 4-bit values
XorNib == [a \in 0..15 |-> [b \in 0..15 |->
             ((a + b) % 2)
             + 2 * (((a \div 2) + (b \div 2)) % 2)
             + 4 * (((a \div 4) + (b \div 4)) % 2)
             + 8 * (((a \div 8) + (b \div 8)) % 2)]]

\* a & b on 4-bit values
AndNib == [a \in 0..15 |-> [b \in 0..15 |->
             ((a % 2) * (b % 2))
             + 2 * (((a \div 2) % 2) * ((b \div 2) % 2))
             + 4 * (((a \div 4) % 2) * ((b \div 4) % 2))
             + 8 * (((a \div 8) % 2) * ((b \div 8) % 2))]]

\* a ^ b on 8-bit values
Xor8(a, b) == 16 * XorNib[a \div 16][b \div 16] + XorNib[a % 16][b % 16]

\* a & b on 16-bit values
And16(a, b) ==
    4096 * AndNib[a \div 4096][b \div 4096]
    + 256 * AndNib[(a \div 256) % 16][(b \div 256) % 16]
    + 16 * AndNib[(a \div 16) % 16][(b \div 16) % 16]
    + AndNib[a % 16][b % 16]

\* the element of a one-element set. A value a C statement computes before the
\* next statement starts is written The({next : v \in {value}}): next with v
\* bound to the value, computed once, where it stands in the code
The(S) == CHOOSE r \in S : TRUE

\* a byte tuple given as a function on 1..n, as the tuple of its values
Word(f) == f \o <<>>

\* a ^ b on byte tuples of the same width
XorW(a, b) ==
    The({Word([i \in 1..Len(x) |-> Xor8(x[i], y[i])]) : <<x, y>> \in {<<a, b>>}})

\* a | b on byte tuples whose set bits do not overlap
OrW(a, b) ==
    The({Word([i \in 1..Len(x) |-> x[i] + y[i] - And16(x[i], y[i])]) :
           <<x, y>> \in {<<a, b>>}})

\* byte j of a byte tuple, 0 outside it
ByteOf(s, j) == IF j >= 1 /\ j <= Len(s) THEN s[j] ELSE 0

\* s >> k, in the width of s
ShiftRightW(s, k) ==
    The({Word([i \in 1..Len(x) |->
                  (ByteOf(x, i + by) \div Pow2(bi))
                  + ((ByteOf(x, i + by + 1) * Pow2(8 - bi)) % 256)]) :
           <<x, by, bi>> \in {<<s, k \div 8, k % 8>>}})

\* s << k, truncated to the width of s
ShiftLeftW(s, k) ==
    The({Word([i \in 1..Len(x) |->
                  ((ByteOf(x, i - by) * Pow2(bi)) % 256)
                  + (ByteOf(x, i - by - 1) \div Pow2(8 - bi))]) :
           <<x, by, bi>> \in {<<s, k \div 8, k % 8>>}})

\* a byte widened to a w-byte value
Widen(b, w) == Word([i \in 1..w |-> IF i = 1 THEN b ELSE 0])

Zero32 == <<0, 0, 0, 0>>
Zero64 == <<0, 0, 0, 0, 0, 0, 0, 0>>

\* a + b mod 2^(8 Len(a)); the carry entering byte i is AddCarry(a, b, i)
RECURSIVE AddCarry(_, _, _)
AddCarry(a, b, i) ==
    IF i = 1 THEN 0 ELSE (a[i - 1] + b[i - 1] + AddCarry(a, b, i - 1)) \div 256

AddW(a, b) ==
    The({Word([i \in 1..Len(x) |-> (x[i] + y[i] + AddCarry(x, y, i)) % 256]) :
           <<x, y>> \in {<<a, b>>}})

\* a[i] * b[k + 1 - i] summed over i .. k
RECURSIVE ColumnSum(_, _, _, _)
ColumnSum(a, b, k, i) ==
    IF i > k THEN 0 ELSE a[i] * b[k + 1 - i] + ColumnSum(a, b, k, i + 1)

\* column k of the schoolbook product a * b, with the carry of the lower columns
RECURSIVE MulColumn(_, _, _)
MulColumn(a, b, k) ==
    ColumnSum(a, b, k, 1) + (IF k = 1 THEN 0 ELSE MulColumn(a, b, k - 1) \div 256)

\* a * b mod 2^(8 Len(a))
MulW(a, b) ==
    The({Word([k \in 1..Len(x) |-> MulColumn(x, y, k) % 256]) : <<x, y>> \in {<<a, b>>}})

(***************************************************************************)
(* The sub-state: struct libsrng_stable_random_state.                      *)
(***************************************************************************)

SubState(shift, carry, current, prev, linear) ==
    [shift |-> shift, carry |-> carry, current |-> current, prev |-> prev, linear |-> linear]

\* STABLE_RANDOM_NEXT_LINEAR: the value linear takes
STABLE_RANDOM_NEXT_LINEAR(linear) == (((linear * 73) % 256) + 29) % 256

cycle_start_points == <<1, 2, 4, 8, 13, 17, 23, 26, 29, 58, 0>>

short_cycles == <<114, 79, 159, 123, 26, 123, 132, 229, 86, 141, 176, 50, 0, 0, 1>>

\* if (!state -> shift) for (p = 0; p < 4; p ++) shift = (shift << 8) | NEXT_LINEAR
RECURSIVE RefillShift(_, _)
RefillShift(s, p) ==
    IF p >= 4 THEN s
    ELSE The({RefillShift(t, p + 1) :
                t \in {[s EXCEPT !.linear = l,
                                 !.shift = OrW(ShiftLeftW(s.shift, 8), Widen(l, 4))] :
                         l \in {STABLE_RANDOM_NEXT_LINEAR(s.linear)}}})

LazyInit(s) == IF s.shift = Zero32 THEN RefillShift(s, 0) ELSE s

\* the xorshift triple on shift
Scramble(s) ==
    The({[s EXCEPT !.shift = XorW(b, ShiftRightW(b, 23))] :
           b \in {XorW(a, ShiftLeftW(a, 9)) :
                    a \in {XorW(s.shift, ShiftRightW(s.shift, 8))}}})

\* faulty variant: the loop over short_cycles replacing nothing
SpliceScanNone(s, p) == s

\* the loop over short_cycles, p = 0, 3, 6, 9 (0-based), leaving at the first match
RECURSIVE SpliceScan(_, _)
SpliceScan(s, p) ==
    IF p >= Len(short_cycles) - 3 THEN s
    ELSE IF s.prev = short_cycles[p + 1] /\ s.current = short_cycles[p + 2]
            /\ s.carry = short_cycles[p + 3]
         THEN [s EXCEPT !.prev = short_cycles[p + 4],
                        !.current = short_cycles[p + 5],
                        !.carry = short_cycles[p + 6]]
         ELSE SpliceScan(s, p + 3)

\* the loop over cycle_start_points, p = 0 .. 9 (0-based), leaving at the first match
RECURSIVE StartScan(_, _)
StartScan(s, p) ==
    IF p >= Len(cycle_start_points) - 1 THEN s
    ELSE IF s.carry = cycle_start_points[p + 1]
         THEN IF cycle_start_points[p + 2] = 0
              THEN [s EXCEPT !.prev = short_cycles[1],
                             !.current = short_cycles[2],
                             !.carry = short_cycles[3],
                             !.linear = STABLE_RANDOM_NEXT_LINEAR(s.linear)]
              ELSE [s EXCEPT !.carry = cycle_start_points[p + 2]]
         ELSE StartScan(s, p + 1)

ShortCycleEscape(s) ==
    IF s.prev # 0 \/ s.current # 0 THEN SpliceScan(s, 0) ELSE StartScan(s, 0)

\* faulty variant: carry left as it is
NormalizeCarryKept(s) == s

\* if (state -> carry >= 210) state -> carry -= 210
NormalizeCarry(s) == IF s.carry >= 210 THEN [s EXCEPT !.carry = s.carry - 210] ELSE s

\* faulty variant: no reload
FixedPointKept(s) == s

\* the reload of prev, carry, current from linear when the three fields sum to 0 or 719
FixedPointEscape(s) ==
    IF s.carry + s.prev + s.current \in {0, 719}
    THEN The({[s EXCEPT !.prev = l1, !.carry = l2, !.current = l3, !.linear = l3] :
                <<l1, l2, l3>> \in
                    {<<l1, l2, STABLE_RANDOM_NEXT_LINEAR(l2)>> :
                       <<l1, l2>> \in {<<l1, STABLE_RANDOM_NEXT_LINEAR(l1)>> :
                                         l1 \in {STABLE_RANDOM_NEXT_LINEAR(s.linear)}}}})
    ELSE s

\* p = 210 * prev + carry; prev = current; current = p & 0xff; carry = p >> 8
GeneratorStep(s) ==
    The({[s EXCEPT !.prev = s.current, !.current = p % 256, !.carry = p \div 256] :
           p \in {210 * s.prev + s.carry}})

AdvanceLinear(s) == [s EXCEPT !.linear = STABLE_RANDOM_NEXT_LINEAR(s.linear)]

\* faulty variant: the shift amount linear & 24
CombineOffsetLow(linear) == And16(linear, 24)

\* the shift amount of p = shift >> ((linear >> 3) & 24)
CombineOffset(linear) == And16(linear \div 8, 24)

\* the switch selector (linear >> 4) & 3
CombineOperator(linear) == And16(linear \div 16, 3)

\* the returned unsigned char
Combine(s) ==
    The({CASE op = 0 -> (p + s.current) % 256
           [] op = 1 -> Xor8(p, s.current)
           [] op = 2 -> (p - s.current) % 256
           [] OTHER -> (s.current - p) % 256 :
         <<p, op>> \in {<<ShiftRightW(s.shift, CombineOffset(s.linear))[1],
                          CombineOperator(s.linear)>>}})

\* libsrng_stable_random: the sub-state it leaves and the byte it returns
libsrng_stable_random(s) ==
    The({[state |-> t, result |-> Combine(t)] :
           t \in {AdvanceLinear(g) :
                    g \in {GeneratorStep(f) :
                             f \in {FixedPointEscape(n) :
                                      n \in {NormalizeCarry(e) :
                                               e \in {ShortCycleEscape(c) :
                                                        c \in {Scramble(i) :
                                                                 i \in {LazyInit(s)}}}}}}}})

(***************************************************************************)
(* The register and its two views: libsrng_random_combined.                *)
(***************************************************************************)

Hosts == {"little", "big"}

Reverse(s) == The({Word([i \in 1..Len(x) |-> x[Len(x) + 1 - i]]) : x \in {s}})

\* the bytes of an unsigned value at increasing addresses, and back
ObjectBytes(host, v) == IF host = "little" THEN v ELSE Reverse(v)

ValueOf(host, m) == IF host = "little" THEN m ELSE Reverse(m)

\* the members of the struct laid over the 8 bytes m: shift at offset 0, then
\* carry, current, prev, linear at offsets 4, 5, 6, 7
StructRead(host, m) ==
    SubState(ValueOf(host, SubSeq(m, 1, 4)), m[5], m[6], m[7], m[8])

StructWrite(host, s) ==
    ObjectBytes(host, s.shift) \o <<s.carry, s.current, s.prev, s.linear>>

\* union libsrng_stable_random_state_union: .structured read from .numeric
UnionStructured(host, numeric) == StructRead(host, ObjectBytes(host, numeric))

\* union libsrng_stable_random_state_union: .numeric read from .structured
UnionNumeric(host, s) == ValueOf(host, StructWrite(host, s))

SizeofState == 8

SizeofStruct == 4 + 1 + 1 + 1 + 1

\* 0x0123456789abcdef
GuardProbe == <<239, 205, 171, 137, 103, 69, 35, 1>>

\* the condition of libsrng_random_combined
OverlayGuard(host) ==
    /\ SizeofState = SizeofStruct
    /\ UnionStructured(host, GuardProbe).shift = <<239, 205, 171, 137>>

\* the condition of the bit-field variant: the sizes only (its struct is five
\* bit-fields of 32 + 8 + 8 + 8 + 8 bits, laid out as the members above)
BitfieldGuard(host) == SizeofState = SizeofStruct

\* the branch that runs libsrng_stable_random on the register's own bytes
OverlayPath(host, state) ==
    The({[state |-> UnionNumeric(host, r.state), result |-> r.result] :
           r \in {libsrng_stable_random(u) : u \in {UnionStructured(host, state)}}})

\* .shift = *state, .carry = *state >> 32, .current = *state >> 40, ...
Unpack(state) ==
    SubState(SubSeq(state, 1, 4), ShiftRightW(state, 32)[1], ShiftRightW(state, 40)[1],
             ShiftRightW(state, 48)[1], ShiftRightW(state, 56)[1])

\* shift | carry << 32 | current << 40 | prev << 48 | linear << 56
Pack(s) ==
    OrW(OrW(OrW(OrW(s.shift \o Zero32, ShiftLeftW(Widen(s.carry, 8), 32)),
                ShiftLeftW(Widen(s.current, 8), 40)),
            ShiftLeftW(Widen(s.prev, 8), 48)),
        ShiftLeftW(Widen(s.linear, 8), 56))

\* the branch that copies the fields out and back
PortablePath(state) ==
    The({[state |-> Pack(r.state), result |-> r.result] :
           r \in {libsrng_stable_random(u) : u \in {Unpack(state)}}})

libsrng_random_combined(host, state) ==
    IF OverlayGuard(host) THEN OverlayPath(host, state) ELSE PortablePath(state)

(***************************************************************************)
(* The bit-field variant of the library: its libsrng_stable_random has no  *)
(* short-cycle escape, and its libsrng_random_combined tests the sizes     *)
(* only.                                                                   *)
(***************************************************************************)

bitfield_stable_random(s) ==
    The({[state |-> t, result |-> Combine(t)] :
           t \in {AdvanceLinear(g) :
                    g \in {GeneratorStep(f) :
                             f \in {FixedPointEscape(n) :
                                      n \in {NormalizeCarry(c) :
                                               c \in {Scramble(i) :
                                                        i \in {LazyInit(s)}}}}}}})

BitfieldOverlayPath(host, state) ==
    The({[state |-> UnionNumeric(host, r.state), result |-> r.result] :
           r \in {bitfield_stable_random(u) : u \in {UnionStructured(host, state)}}})

BitfieldPortablePath(state) ==
    The({[state |-> Pack(r.state), result |-> r.result] :
           r \in {bitfield_stable_random(u) : u \in {Unpack(state)}}})

bitfield_random_combined(host, state) ==
    IF BitfieldGuard(host) THEN BitfieldOverlayPath(host, state)
    ELSE BitfieldPortablePath(state)

(***************************************************************************)
(* libsrng_random_combined_multibyte                                       *)
(***************************************************************************)

AllOnes64 == <<255, 255, 255, 255, 255, 255, 255, 255>>

\* result = (result << 8) | libsrng_random_combined(state)
MultibyteStep(host, acc) ==
    The({[state |-> c.state, result |-> OrW(ShiftLeftW(acc.result, 8), Widen(c.result, 8))] :
           c \in {libsrng_random_combined(host, acc.state)}})

\* while (width --) ...
RECURSIVE MultibyteLoop(_, _, _)
MultibyteLoop(host, acc, width) ==
    IF width = 0 THEN acc
    ELSE The({MultibyteLoop(host, a, width - 1) : a \in {MultibyteStep(host, acc)}})

libsrng_random_combined_multibyte(host, state, width) ==
    IF width > SizeofState THEN [state |-> state, result |-> AllOnes64]
    ELSE MultibyteLoop(host, [state |-> state, result |-> Zero64], width)

(***************************************************************************)
(* libsrng_random_halfword                                                 *)
(***************************************************************************)

HALFWORD_LCG_MULTIPLIER == 25385

HALFWORD_LCG_ADDEND == 17185

libsrng_random_linear(previous) ==
    (previous * HALFWORD_LCG_MULTIPLIER + HALFWORD_LCG_ADDEND) % 65536

\* 0x3243f6a8885a308d
SWITCH_TRIGGER_STATE_0 == <<141, 48, 90, 136, 168, 246, 67, 50>>

\* 0x2b7e151628aed2a6
SWITCH_TRIGGER_STATE_1 == <<166, 210, 174, 40, 22, 21, 126, 43>>

\* 0x19e3779b97f4a7c1
SWITCH_TRIGGER_STATE_2 == <<193, 167, 244, 151, 155, 119, 227, 25>>

switch_trigger_states ==
    <<SWITCH_TRIGGER_STATE_0, SWITCH_TRIGGER_STATE_1, SWITCH_TRIGGER_STATE_2,
      SWITCH_TRIGGER_STATE_0>>

\* faulty variant: the loop without its break, each replacement matched again
RECURSIVE TriggerScanThrough(_, _)
TriggerScanThrough(state, count) ==
    IF count >= Len(switch_trigger_states) - 1 THEN state
    ELSE TriggerScanThrough(IF state = switch_trigger_states[count + 1]
                            THEN switch_trigger_states[count + 2]
                            ELSE state, count + 1)

\* the loop over switch_trigger_states, count = 0 .. 2, leaving at the first match
RECURSIVE TriggerScan(_, _)
TriggerScan(state, count) ==
    IF count >= Len(switch_trigger_states) - 1 THEN state
    ELSE IF state = switch_trigger_states[count + 1]
         THEN switch_trigger_states[count + 2]
         ELSE TriggerScan(state, count + 1)

\* while (count --) buffer = libsrng_random_linear(buffer)
RECURSIVE WhitenLoop(_, _)
WhitenLoop(buffer, count) ==
    IF count = 0 THEN buffer ELSE WhitenLoop(libsrng_random_linear(buffer), count - 1)

\* if (shift) buffer = (buffer << shift) | (buffer >> (16 - shift)), as a uint16_t
Rotate(buffer, shift) ==
    IF shift # 0
    THEN ((buffer * Pow2(shift)) % 65536) + (buffer \div Pow2(16 - shift))
    ELSE buffer

\* the statements after the byte draws: buffer is the 16-bit value assembled,
\* control the byte drawn after it
HalfwordWhiten(buffer, control) ==
    The({(Rotate(WhitenLoop(buffer, count), shift) * multiplier) % 65536 :
           <<shift, multiplier, count>> \in
               {<<control \div 16, 3 + (And16(control, 12) \div 2),
                  And16(control, 3) + 2>>}})

\* the register it leaves (state), the halfword it returns (result), the register
\* it was called with (entry) and the one it starts drawing bytes from (switched)
libsrng_random_halfword(host, state) ==
    The({[state |-> c.state,
          result |-> HalfwordWhiten(m.result[1] + 256 * m.result[2], c.result),
          entry |-> state, switched |-> m.switched] :
         <<m, c>> \in
             {<<m, libsrng_random_combined(host, m.state)>> :
                m \in {libsrng_random_combined_multibyte(host, start, 2)
                         @@ [switched |-> start] :
                       start \in {TriggerScan(state, 0)}}}})

(***************************************************************************)
(* libsrng_random_seed                                                     *)
(***************************************************************************)

\* 0x5851f42d4c957f2d
SEED_LCG_MULTIPLIER == <<45, 127, 149, 76, 45, 244, 81, 88>>

\* 0x0123456789abcdef
SEED_LCG_FIRST_ADDEND == <<239, 205, 171, 137, 103, 69, 35, 1>>

\* 0x0fedcba987654321
SEED_LCG_SECOND_ADDEND == <<33, 67, 101, 135, 169, 203, 237, 15>>

\* a uint16_t widened to 64 bits
Widen16(h) == <<h % 256, h \div 256, 0, 0, 0, 0, 0, 0>>

\* for (count = 0; count < 4; count ++) second = (second << 16) + halfword(state);
\* calls collects what each halfword call started from
SeedHalfwordStep(host, acc) ==
    The({[state |-> h.state,
          second |-> AddW(ShiftLeftW(acc.second, 16), Widen16(h.result)),
          calls |-> Append(acc.calls, [entry |-> h.entry, switched |-> h.switched])] :
         h \in {libsrng_random_halfword(host, acc.state)}})

RECURSIVE SeedHalfwords(_, _, _)
SeedHalfwords(host, acc, count) ==
    IF count >= 4 THEN acc
    ELSE The({SeedHalfwords(host, a, count + 1) : a \in {SeedHalfwordStep(host, acc)}})

\* the value it returns (result), with the register as the call leaves it
libsrng_random_seed(host, state) ==
    The({[state |-> h.state,
          result |-> XorW(first, AddW(MulW(h.second, SEED_LCG_MULTIPLIER),
                                      SEED_LCG_SECOND_ADDEND)),
          calls |-> h.calls] :
         <<first, h>> \in
             {<<AddW(MulW(m.result, SEED_LCG_MULTIPLIER), SEED_LCG_FIRST_ADDEND),
                SeedHalfwords(host, [state |-> m.state, second |-> Zero64,
                                     calls |-> <<>>], 0)>> :
                m \in {libsrng_random_combined_multibyte(host, state, 8)}}})

(***************************************************************************)
(* libsrng_random_range and libsrng_random                                 *)
(***************************************************************************)

\* !(limit & (limit - 1)), limit - 1 taken in the 16 bits that meet result
PowerOfTwoTest(limit) == And16(limit, (limit - 1) % 65536) = 0

\* faulty variant: result & limit
RangeMaskWhole(result, limit) == And16(result, limit)

\* result & (limit - 1)
RangeMask(result, limit) == And16(result, (limit - 1) % 65536)

\* faulty variant: result % (limit + 1)
RangeModuloInclusive(result, limit) == result % (limit + 1)

\* result % limit, the value of both return statements after the mask
RangeModulo(result, limit) == result % limit

\* faulty variant: resampling_limit = limit
ResamplingLimitWhole(limit) == limit

\* uint16_t resampling_limit = 0x10000 % limit
ResamplingLimit(limit) == 65536 % limit

\* the loop condition of libsrng_random_range
RedrawTest(result, limit) == result < ResamplingLimit(limit)

\* faulty variant: libsrng_random_range without its first statement
RangeStartAlways(host, state, limit) ==
    The({[state |-> h.state, result |-> h.result, draws |-> <<h.result>>,
          calls |-> <<[entry |-> h.entry, switched |-> h.switched]>>]
         @@ (IF PowerOfTwoTest(limit)
             THEN [pc |-> "idle", ret |-> RangeMask(h.result, limit)]
             ELSE IF h.result >= limit
                  THEN [pc |-> "idle", ret |-> RangeModulo(h.result, limit)]
                  ELSE [pc |-> "redraw", ret |-> 0]) :
         h \in {libsrng_random_halfword(host, state)}})

\* libsrng_random_range up to its loop: where it stands after the first draw
\* (at "redraw": before the loop's test; at "idle": returned ret)
RangeStart(host, state, limit) ==
    IF limit = 1
    THEN [pc |-> "idle", state |-> state, result |-> 0, ret |-> 0,
          draws |-> <<>>, calls |-> <<>>]
    ELSE The({[state |-> h.state, result |-> h.result, draws |-> <<h.result>>,
               calls |-> <<[entry |-> h.entry, switched |-> h.switched]>>]
              @@ (IF PowerOfTwoTest(limit)
                  THEN [pc |-> "idle", ret |-> RangeMask(h.result, limit)]
                  ELSE IF h.result >= limit
                       THEN [pc |-> "idle", ret |-> RangeModulo(h.result, limit)]
                       ELSE [pc |-> "redraw", ret |-> 0]) :
              h \in {libsrng_random_halfword(host, state)}})

\* *state = libsrng_random_seed(state)
ReseedStep(host, acc) ==
    The({[state |-> s.result, calls |-> acc.calls \o s.calls] :
           s \in {libsrng_random_seed(host, acc.state)}})

\* while (reseed --) ...
RECURSIVE ReseedLoop(_, _, _)
ReseedLoop(host, acc, reseed) ==
    IF reseed = 0 THEN acc
    ELSE The({ReseedLoop(host, a, reseed - 1) : a \in {ReseedStep(host, acc)}})

\* libsrng_random with a register, up to its return or to the loop of
\* libsrng_random_range; seeded is the register after the reseed loop
libsrng_random(host, state, limit, reseed) ==
    The({[r EXCEPT !.calls = s.calls \o r.calls] @@ [seeded |-> s.state] :
           <<s, r>> \in
               {<<s, RangeStart(host, s.state, limit)>> :
                  s \in {ReseedLoop(host, [state |-> state, calls |-> <<>>], reseed)}}})

(***************************************************************************)
(* The caller: one register, drawn from by a sequence of libsrng_random    *)
(* calls.                                                                  *)
(***************************************************************************)

VARIABLES
    state,      \* the caller's register
    host,       \* the byte order of the machine
    pc,         \* "idle" between calls, "redraw" at the loop of libsrng_random_range
    present,    \* whether the last call was given the register (FALSE: a null pointer)
    range,      \* the range argument of the last call
    reseed,     \* the reseed argument of the last call
    entry,      \* the register when the last call began
    seeded,     \* the register after the last call's reseed loop
    result,     \* result of libsrng_random_range
    draws,      \* the halfwords libsrng_random_range drew in the last call, in order
    hwcalls,    \* for each libsrng_random_halfword call of the last call: the register
                \* it was given and the register it drew its bytes from
    ret,        \* the value the last call returned
    ncalls,     \* the number of calls made
    build,      \* which libsrng_random_combined is compiled in: "libsrng" or "bitfield"
    sub,        \* a sub-state libsrng_stable_random is run on
    first,      \* the sub-state the run began with
    before,     \* the sub-state, or the register, before the last byte was drawn
    out,        \* the last byte drawn
    nbytes      \* the number of bytes drawn

api == <<pc, present, range, reseed, entry, seeded, result, draws, hwcalls, ret, ncalls>>

harness == <<build, sub, first, before, out, nbytes>>

vars == <<state, host, api, harness>>

MaxCalls == 2

MaxReseed == 2

MaxBytes == 30

\* 0x7ce0eb5a7a543855: three bytes on, the register is SWITCH_TRIGGER_STATE_1
BeforeTrigger1 == <<85, 56, 84, 122, 90, 235, 224, 124>>

\* 0x6a31597b4aa5d9fa: eight bytes on, the register is SWITCH_TRIGGER_STATE_0
BeforeTrigger0 == <<250, 217, 165, 74, 123, 89, 49, 106>>

Seeds ==
    {Zero64, SWITCH_TRIGGER_STATE_0, SWITCH_TRIGGER_STATE_1, SWITCH_TRIGGER_STATE_2,
     BeforeTrigger1, BeforeTrigger0}

Limits == {0, 1, 10, 256, 32769, 49153, 65535}

NullLimits == {0, 10}

NoSub == SubState(Zero32, 0, 0, 0, 0)

ApiIdle ==
    /\ pc = "idle"
    /\ present = TRUE
    /\ range = 0
    /\ reseed = 0
    /\ seeded = state
    /\ result = 0
    /\ draws = <<>>
    /\ hwcalls = <<>>
    /\ ret = 0
    /\ ncalls = 0

Init ==
    /\ state \in Seeds
    /\ host \in Hosts
    /\ build = "libsrng"
    /\ sub = NoSub
    /\ first = NoSub
    /\ before = NoSub
    /\ out = 0
    /\ nbytes = 0
    /\ pc = "idle"
    /\ present = TRUE
    /\ range = 0
    /\ reseed = 0
    /\ entry = state
    /\ seeded = state
    /\ result = 0
    /\ draws = <<>>
    /\ hwcalls = <<>>
    /\ ret = 0
    /\ ncalls = 0

\* libsrng_random(&state, limit, n)
Call(limit, n) ==
    /\ pc = "idle"
    /\ ncalls < MaxCalls
    /\ \E r \in {libsrng_random(host, state, limit, n)} :
           /\ seeded' = r.seeded
           /\ state' = r.state
           /\ pc' = r.pc
           /\ result' = r.result
           /\ draws' = r.draws
           /\ hwcalls' = r.calls
           /\ ret' = r.ret
    /\ present' = TRUE
    /\ range' = limit
    /\ reseed' = n
    /\ entry' = state
    /\ ncalls' = ncalls + 1
    /\ UNCHANGED <<host, harness>>

\* libsrng_random(NULL, limit, n)
CallNull(limit, n) ==
    /\ pc = "idle"
    /\ ncalls < MaxCalls
    /\ present' = FALSE
    /\ range' = limit
    /\ reseed' = n
    /\ entry' = state
    /\ seeded' = state
    /\ draws' = <<>>
    /\ hwcalls' = <<>>
    /\ ret' = 0
    /\ ncalls' = ncalls + 1
    /\ UNCHANGED <<state, host, pc, result, harness>>

\* faulty variant: a pass of the loop that draws nothing
RedrawNothing ==
    /\ pc = "redraw"
    /\ RedrawTest(result, range)
    /\ UNCHANGED vars

\* one pass of while (result < resampling_limit) result = libsrng_random_halfword(state)
Redraw ==
    /\ pc = "redraw"
    /\ RedrawTest(result, range)
    /\ \E h \in {libsrng_random_halfword(host, state)} :
           /\ state' = h.state
           /\ result' = h.result
           /\ draws' = Append(draws, h.result)
           /\ hwcalls' = Append(hwcalls, [entry |-> h.entry, switched |-> h.switched])
    /\ UNCHANGED <<host, pc, present, range, reseed, entry, seeded, ret, ncalls, harness>>

\* the loop's exit: return result % limit
Return ==
    /\ pc = "redraw"
    /\ ~RedrawTest(result, range)
    /\ ret' = RangeModulo(result, range)
    /\ pc' = "idle"
    /\ UNCHANGED <<state, host, present, range, reseed, entry, seeded, result, draws,
                   hwcalls, ncalls, harness>>

Next ==
    \/ \E limit \in Limits, n \in 0..MaxReseed : Call(limit, n)
    \/ \E limit \in NullLimits, n \in {0, MaxReseed} : CallNull(limit, n)
    \/ Redraw
    \/ Return

Spec == Init /\ [][Next]_vars

\* a call in progress runs on: the loop takes its next pass, or returns
FairSpec == Spec /\ WF_vars(Redraw) /\ WF_vars(Return)

(***************************************************************************)
(* libsrng_stable_random run on its own, from chosen sub-states.           *)
(***************************************************************************)

\* 0x885a308d, the low half of SWITCH_TRIGGER_STATE_0
SomeShift == <<141, 48, 90, 136>>

StartShifts == {Zero32, SomeShift}

\* (prev, current, carry): the triples of short_cycles, the two fixed points of the
\* generator step, start points of cycle_start_points, and carries of 210 and more
StartTriples ==
    {<<114, 79, 159>>, <<123, 26, 123>>, <<132, 229, 86>>, <<141, 176, 50>>,
     <<0, 0, 0>>, <<255, 255, 209>>, <<0, 0, 210>>, <<0, 0, 1>>, <<0, 0, 29>>,
     <<0, 0, 58>>, <<0, 0, 5>>, <<255, 255, 255>>, <<67, 246, 168>>, <<255, 0, 250>>}

StartLinears == {0, 8, 210, 255}

SubStarts ==
    {SubState(sh, t[3], t[2], t[1], l) :
       sh \in StartShifts, t \in StartTriples, l \in StartLinears}

ByteInit ==
    /\ sub \in SubStarts
    /\ first = sub
    /\ before = sub
    /\ out = 0
    /\ nbytes = 0
    /\ build = "libsrng"
    /\ state = Zero64
    /\ host = "little"
    /\ entry = state
    /\ ApiIdle

\* one call of libsrng_stable_random
ByteStep ==
    /\ nbytes < MaxBytes
    /\ \E r \in {libsrng_stable_random(sub)} :
           /\ sub' = r.state
           /\ out' = r.result
    /\ before' = sub
    /\ nbytes' = nbytes + 1
    /\ UNCHANGED <<state, host, api, build, first>>

ByteNext == ByteStep

ByteSpec == ByteInit /\ [][ByteNext]_vars

(***************************************************************************)
(* libsrng_random_combined run on its own, on either machine, in either    *)
(* variant of the library.                                                 *)
(***************************************************************************)

Builds == {"libsrng", "bitfield"}

AdapterInit ==
    /\ state \in Seeds \cup {GuardProbe}
    /\ host \in Hosts
    /\ build \in Builds
    /\ before = state
    /\ out = 0
    /\ nbytes = 0
    /\ sub = NoSub
    /\ first = NoSub
    /\ entry = state
    /\ ApiIdle

\* one call of libsrng_random_combined
CombinedStep ==
    /\ build = "libsrng"
    /\ nbytes < MaxBytes
    /\ \E r \in {libsrng_random_combined(host, state)} :
           /\ state' = r.state
           /\ out' = r.result
    /\ before' = state
    /\ nbytes' = nbytes + 1
    /\ UNCHANGED <<host, api, build, sub, first>>

\* one call of the bit-field variant's libsrng_random_combined
BitfieldCombinedStep ==
    /\ build = "bitfield"
    /\ nbytes < MaxBytes
    /\ \E r \in {bitfield_random_combined(host, state)} :
           /\ state' = r.state
           /\ out' = r.result
    /\ before' = state
    /\ nbytes' = nbytes + 1
    /\ UNCHANGED <<host, api, build, sub, first>>

AdapterNext == CombinedStep \/ BitfieldCombinedStep

AdapterSpec == AdapterInit /\ [][AdapterNext]_vars

(***************************************************************************)
(* Properties of libsrng_random, over Spec and FairSpec.                   *)
(***************************************************************************)

\* a call given the register has returned
Returned == pc = "idle" /\ ncalls > 0 /\ present

\* limit is 0 or a power of two
IsPowerOfTwo(limit) == limit = 0 \/ \E k \in 0..15 : limit = Pow2(k)

\* libsrng_random_seed applied n times in sequence
RECURSIVE SeedTimes(_, _, _)
SeedTimes(h, r, n) ==
    IF n = 0 THEN r ELSE SeedTimes(h, libsrng_random_seed(h, r).result, n - 1)

\* n successive libsrng_random_halfword calls: the values drawn and the register left
RECURSIVE HalfwordDraws(_, _, _)
HalfwordDraws(h, acc, n) ==
    IF n = 0 THEN acc
    ELSE The({HalfwordDraws(h, [state |-> d.state,
                                draws |-> Append(acc.draws, d.result)], n - 1) :
                d \in {libsrng_random_halfword(h, acc.state)}})

\* C1: every call of libsrng_random with a register and a limit of 2 .. 65535,
\* whatever the reseed count and whichever call of a sequence it is, returns a
\* value v with 0 <= v < limit.
RangeBound ==
    (Returned /\ range > 1) => (ret >= 0 /\ ret < range)

\* the second call of a sequence came back through the loop, inside its limit
RangeBoundWitness ==
    /\ Returned
    /\ ncalls >= 2
    /\ range = 32769
    /\ Len(draws) >= 2
    /\ ret < range

\* C2: libsrng_random(&r, 1, n) returns 0 and leaves r equal to libsrng_random_seed
\* applied n times to the original r; the only libsrng_random_halfword calls are the
\* four of each reseed, so with n = 0 the register is unchanged.
ReseedOnly ==
    (Returned /\ range = 1) =>
        /\ ret = 0
        /\ state = SeedTimes(host, entry, reseed)
        /\ state = seeded
        /\ draws = <<>>
        /\ Len(hwcalls) = 4 * reseed
        /\ (reseed = 0 => state = entry)

\* a call with limit 1 that reseeded twice and changed the register
ReseedOnlyWitness ==
    /\ Returned
    /\ range = 1
    /\ reseed >= 2
    /\ state # entry
    /\ ret = 0

\* C3: with reseed 0 and a limit that is 0 or a power of two, libsrng_random returns
\* the libsrng_random_halfword output reduced to its low bits (all 16 for limit 0),
\* and for a limit other than 1 the register is the one a single
\* libsrng_random_halfword call leaves.
PowerOfTwoExact ==
    (Returned /\ reseed = 0 /\ IsPowerOfTwo(range)) =>
        \A h \in {libsrng_random_halfword(host, entry)} :
            /\ ret = (IF range = 0 THEN h.result ELSE h.result % range)
            /\ (range # 1 => (state = h.state /\ draws = <<h.result>>))

\* a call with limit 0 that returned a halfword of more than 15 bits, and one with
\* limit 256 are both in the state space; this is the first
PowerOfTwoExactWitness ==
    /\ Returned
    /\ reseed = 0
    /\ range = 0
    /\ ret >= 32768
    /\ state # entry

\* C4: for a limit above 1 that is not a power of two, the value returned is
\* d % limit where d is the first of the successive libsrng_random_halfword outputs
\* that is at least 65536 % limit: every earlier output is below that bias, none at
\* or above it is passed over, nothing is drawn after d, and each value below limit
\* is the residue of exactly 65536 \div limit of the outputs at or above the bias.
UnbiasedRejection ==
    (present /\ ncalls > 0 /\ range > 1 /\ ~IsPowerOfTwo(range)) =>
        \A bias \in {65536 % range}, n \in {Len(draws)} :
            /\ n >= 1
            /\ \A i \in 1..(n - 1) : draws[i] < bias
            /\ [state |-> state, draws |-> draws]
                   = HalfwordDraws(host, [state |-> seeded, draws |-> <<>>], n)
            /\ (pc = "redraw" /\ n = 1) => draws[n] < range
            /\ (n > 1) => draws[1] < range
            /\ (pc = "idle") =>
                   /\ draws[n] >= bias
                   /\ ret = draws[n] % range
                   /\ Cardinality({k \in 0..(65536 \div range) :
                                     /\ ret + k * range >= bias
                                     /\ ret + k * range <= 65535})
                          = 65536 \div range

\* a call that passed over two outputs below the bias and returned the third
UnbiasedRejectionWitness ==
    /\ Returned
    /\ range > 1
    /\ ~IsPowerOfTwo(range)
    /\ Len(draws) >= 3
    /\ draws[1] < 65536 % range
    /\ draws[Len(draws)] >= 65536 % range

\* C6: the loop of libsrng_random_range exits: a call that has entered it returns.
RedrawExits == (pc = "redraw") ~> (pc = "idle")

\* the loop has taken a pass and drawn again
RedrawExitsWitness ==
    /\ pc = "redraw"
    /\ Len(draws) >= 2
    /\ RedrawTest(result, range)

\* C8: every libsrng_random_halfword call, those of libsrng_random_seed and of the
\* loop of libsrng_random_range included, starts its byte draws from the next
\* trigger constant when called with a register equal to one of the three, from the
\* register it was called with otherwise; one replacement is made, and not matched
\* again.
TriggerEscape ==
    /\ \A i \in 1..Len(hwcalls) :
           \A c \in {hwcalls[i]} :
               /\ (c.entry = SWITCH_TRIGGER_STATE_0) => (c.switched = SWITCH_TRIGGER_STATE_1)
               /\ (c.entry = SWITCH_TRIGGER_STATE_1) => (c.switched = SWITCH_TRIGGER_STATE_2)
               /\ (c.entry = SWITCH_TRIGGER_STATE_2) => (c.switched = SWITCH_TRIGGER_STATE_0)
               /\ (c.entry \notin {SWITCH_TRIGGER_STATE_0, SWITCH_TRIGGER_STATE_1,
                                   SWITCH_TRIGGER_STATE_2}) => (c.switched = c.entry)
    /\ (hwcalls # <<>> /\ range # 1) =>
           state = libsrng_random_combined_multibyte(
                       host, hwcalls[Len(hwcalls)].switched, 3).state

\* a pass of the loop of libsrng_random_range called libsrng_random_halfword with
\* the register at SWITCH_TRIGGER_STATE_1
TriggerEscapeWitness ==
    /\ reseed = 0
    /\ Len(hwcalls) >= 2
    /\ hwcalls[2].entry = SWITCH_TRIGGER_STATE_1
    /\ hwcalls[2].switched = SWITCH_TRIGGER_STATE_2

\* a libsrng_random_halfword call of libsrng_random_seed was made with the register
\* at SWITCH_TRIGGER_STATE_0
TriggerEscapeInSeed ==
    /\ reseed > 0
    /\ Len(hwcalls) >= 4
    /\ hwcalls[1].entry = SWITCH_TRIGGER_STATE_0
    /\ hwcalls[1].switched = SWITCH_TRIGGER_STATE_1

(***************************************************************************)
(* Properties of libsrng_stable_random, over ByteSpec.                     *)
(***************************************************************************)

\* (prev, current, carry) of a sub-state
Triple(s) == <<s.prev, s.current, s.carry>>

\* the recurrence on its own: value = 210 * prev + carry; prev <- current;
\* current <- value & 0xff; carry <- value >> 8
PlainStep(t) == <<t[2], (210 * t[1] + t[3]) % 256, (210 * t[1] + t[3]) \div 256>>

RECURSIVE PlainTimes(_, _)
PlainTimes(t, n) == IF n = 0 THEN t ELSE PlainTimes(PlainStep(t), n - 1)

\* the triples the recurrence on its own visits from t in MaxBytes steps
PlainOrbit(t) == {PlainTimes(t, n) : n \in 0..MaxBytes}

\* triple number i (0 .. 4) of short_cycles
ListedTriple(i) == <<short_cycles[3 * i + 1], short_cycles[3 * i + 2], short_cycles[3 * i + 3]>>

\* the four ways of combining p and current, numbered as the switch numbers them
Combined(op, p, current) ==
    CASE op = 0 -> (p + current) % 256
      [] op = 1 -> Xor8(p, current)
      [] op = 2 -> (p - current) % 256
      [] OTHER -> (current - p) % 256

\* C7 (as the code has it): with linear already advanced, the 8 bits taken from
\* shift start at bit 8 * k with k the value of bits 6-7 of linear, and bits 4-5 of
\* linear choose add, XOR, subtract or reverse-subtract with current, truncated to
\* 8 bits.
CombineStep ==
    (nbytes > 0) =>
        out = Combined((sub.linear \div 16) % 4, sub.shift[(sub.linear \div 64) + 1],
                       sub.current)

\* C7 (as stated): the 8 bits start at bit 8 * k with k the value of bits 3-4 of
\* linear, combined with current in one of the four ways.
CombineStepBits34 ==
    (nbytes > 0) =>
        \E op \in 0..3 :
            out = Combined(op, sub.shift[((sub.linear \div 8) % 4) + 1], sub.current)

\* a byte taken at offset 24 when bits 3-4 of linear name another offset, whose
\* byte differs, and combined by reverse-subtract
CombineStepWitness ==
    /\ nbytes > 0
    /\ sub.linear \div 64 = 3
    /\ (sub.linear \div 16) % 4 = 3
    /\ sub.shift[((sub.linear \div 8) % 4) + 1] # sub.shift[4]
    /\ out = (sub.current - sub.shift[4]) % 256

\* C9: a call made with prev or current non-zero and (prev, current, carry) equal
\* to listed triple i of short_cycles runs the generator step on listed triple
\* i + 1, any other such triple is stepped as it is, and a run begun on a listed
\* triple is never, after any call, on the cycle the recurrence on its own would
\* keep that triple on.
SpliceEscape ==
    /\ (nbytes > 0 /\ (before.prev # 0 \/ before.current # 0)) =>
           IF \E i \in 0..3 : Triple(before) = ListedTriple(i)
           THEN \A i \in 0..3 :
                    (Triple(before) = ListedTriple(i)) =>
                        (Triple(sub) = PlainStep(ListedTriple(i + 1)))
           ELSE (before.carry < 210 /\ before.prev + before.current + before.carry # 719) =>
                    (Triple(sub) = PlainStep(Triple(before)))
    /\ (nbytes > 0 /\ \E i \in 0..3 : Triple(first) = ListedTriple(i)) =>
           Triple(sub) \notin PlainOrbit(Triple(first))

\* after as many calls as bring the recurrence on its own back to the listed triple
\* the run began on, the run is off that triple's cycle
SpliceEscapeWitness ==
    /\ nbytes > 0
    /\ Triple(first) = ListedTriple(0)
    /\ PlainTimes(Triple(first), nbytes) = Triple(first)
    /\ Triple(sub) \notin PlainOrbit(Triple(first))

\* C10: after a call of libsrng_stable_random, from any sub-state, (prev, current,
\* carry) is neither (0, 0, 0) nor (255, 255, 209), the two fixed points of the
\* generator step.
NoFixedPoint ==
    (nbytes > 0) => (Triple(sub) \notin {<<0, 0, 0>>, <<255, 255, 209>>})

\* a call made on a fixed point, register 0 among them, left another triple
NoFixedPointWitness ==
    /\ nbytes > 0
    /\ Triple(before) \in {<<0, 0, 0>>, <<255, 255, 209>>}
    /\ Triple(sub) \notin {<<0, 0, 0>>, <<255, 255, 209>>}

\* the sub-state of a call after carry -= 210, before the test of the three fields
Normalized(s) ==
    The({NormalizeCarry(e) :
           e \in {ShortCycleEscape(c) : c \in {Scramble(i) : i \in {LazyInit(s)}}}})

\* the call reloads prev, carry and current from linear
Reloads(n) == n.carry + n.prev + n.current \in {0, 719}

\* C11 (as the code has it): the generator step is applied with carry below 210
\* in every call that does not reload the three fields, and carry is then at most
\* 209 after the call; a call that reloads them steps with whatever byte linear
\* gave carry, and carry is at most 210 after any call.
CarryBound ==
    (nbytes > 0) =>
        \A n \in {Normalized(before)} :
            \A g \in {FixedPointEscape(n)} :
                /\ sub.carry = (210 * g.prev + g.carry) \div 256
                /\ sub.carry <= 210
                /\ (~Reloads(n)) => (g.carry < 210 /\ g = n /\ sub.carry <= 209)
                /\ Reloads(n) =>
                       g.carry = STABLE_RANDOM_NEXT_LINEAR(
                                     STABLE_RANDOM_NEXT_LINEAR(n.linear))

\* C11 (as stated): in every call the generator step is applied with carry below
\* 210, and carry is at most 209 after the call, reloads included.
CarryInModulus ==
    (nbytes > 0) =>
        \A g \in {FixedPointEscape(n) : n \in {Normalized(before)}} :
            g.carry < 210 /\ sub.carry <= 209

\* a call that reloaded the three fields stepped with carry 210 or more and left
\* carry at 210
CarryBoundWitness ==
    /\ nbytes > 0
    /\ Reloads(Normalized(before))
    /\ FixedPointEscape(Normalized(before)).carry >= 210
    /\ sub.carry = 210

(***************************************************************************)
(* Properties of libsrng_random_combined, over AdapterSpec.                *)
(***************************************************************************)

\* the overlay of the machine reads the five fields where the shifts of the
\* portable branch read them
LayoutVerified(h) ==
    \A r \in Seeds \cup {GuardProbe} : UnionStructured(h, r) = Unpack(r)

\* C5: on either machine, libsrng_random_combined returns the byte and writes back
\* the register that its portable branch gives, and takes the overlay branch only
\* where the overlay reads shift from bits 0-31, carry from 32-39, current from
\* 40-47, prev from 48-55 and linear from 56-63 of the register.
PathIndependence ==
    (nbytes > 0) =>
        /\ \A r \in {IF build = "libsrng" THEN PortablePath(before)
                     ELSE BitfieldPortablePath(before)} :
               state = r.state /\ out = r.result
        /\ (IF build = "libsrng" THEN OverlayGuard(host) ELSE BitfieldGuard(host))
               => LayoutVerified(host)

\* C5 in the library proper, whose condition reads the probe value back
GuardedPathIndependence == (build = "libsrng") => PathIndependence

\* the bit-field variant on the big-endian machine took the overlay branch and
\* left a register other than the one its portable branch leaves
BitfieldOverlayWitness ==
    /\ build = "bitfield"
    /\ host = "big"
    /\ nbytes > 0
    /\ BitfieldGuard(host)
    /\ state # BitfieldPortablePath(before).state

====
